---- MODULE Spec2Model ----
(***************************************************************************)
(* Model of the two Streamlit dashboards of streamlit_ecommerce_sales:     *)
(*   src/ecommerce-dashboard.py   (filters, metrics, charts, CSV export)   *)
(*   src/ecommerce-dash-pdf.py    (the same pass plus a branded PDF report)*)
(* One run of a script is one pass from load_data() to the download        *)
(* buttons; a widget change re-runs the script from the top.               *)
(*                                                                         *)
(* Encoding of values:                                                     *)
(*   - a timestamp is an integer, day * TicksPerDay + time of day;         *)
(*     pd.to_datetime(<date>) is midnight of that day, day * TicksPerDay;  *)
(*   - a category name is a positive integer (the rank of the name in      *)
(*     string order); 0 is the sentinel 'All' of the selectbox; the        *)
(*     modelled names are shorter than 40 characters;                      *)
(*   - amounts and quantities are integers; a mean is kept as the exact    *)
(*     rational sum/count and rounded when it is formatted;                *)
(*   - a formatted string is the sequence of its characters.               *)
(***************************************************************************)
EXTENDS Integers, Sequences, FiniteSets, TLC

\* ------------------------------------------------------------------ bounds

\* Rows of an exhaustively enumerated CSV file.
MaxRows == 2

\* Distinct categories of the wide CSV files (more than the top-10 cut).
NumWideCats == 11

\* Resolution of the time of day: instants per day.
TicksPerDay == 2

\* Days per calendar month of the modelled calendar.
DaysPerMonth == 2

\* ------------------------------------------------------- program constants

\* .head(10) / .tail(10) of the top categories.
TopN == 10

\* st.dataframe(df.head(100)).
PreviewRows == 100

\* ------------------------------------------------------------- sequences

Range(s) == {s[i] : i \in DOMAIN s}

Min2(a, b) == IF a <= b THEN a ELSE b

SetMin(S) == CHOOSE x \in S : \A y \in S : x <= y

SetMax(S) == CHOOSE x \in S : \A y \in S : y <= x

\* The elements of a finite set of integers in ascending order.
RECURSIVE SortedSeq(_)
SortedSeq(S) ==
    IF S = {} THEN <<>> ELSE <<SetMin(S)>> \o SortedSeq(S \ {SetMin(S)})

RECURSIVE SeqSum(_)
SeqSum(s) == IF s = <<>> THEN 0 ELSE Head(s) + SeqSum(Tail(s))

\* s.head(n) and s.tail(n) of pandas.
HeadN(s, n) == SubSeq(s, 1, Min2(n, Len(s)))

TailN(s, n) == SubSeq(s, Len(s) - Min2(n, Len(s)) + 1, Len(s))

\* ------------------------------------------------------------ formatting

Digit(d) == CASE d = 0 -> "0" [] d = 1 -> "1" [] d = 2 -> "2" [] d = 3 -> "3"
              [] d = 4 -> "4" [] d = 5 -> "5" [] d = 6 -> "6" [] d = 7 -> "7"
              [] d = 8 -> "8" [] d = 9 -> "9"

\* The digits of n >= 0 with a comma between groups of three: format(n, ',').
RECURSIVE GroupedDigits(_)
GroupedDigits(n) ==
    IF n < 10 THEN <<Digit(n)>>
    ELSE IF n < 100 THEN <<Digit(n \div 10), Digit(n % 10)>>
    ELSE IF n < 1000 THEN <<Digit(n \div 100), Digit((n \div 10) % 10), Digit(n % 10)>>
    ELSE GroupedDigits(n \div 1000)
         \o <<",", Digit((n \div 100) % 10), Digit((n \div 10) % 10), Digit(n % 10)>>

\* The digits of n >= 0 without separators.
RECURSIVE PlainDigits(_)
PlainDigits(n) ==
    IF n < 10 THEN <<Digit(n)>> ELSE PlainDigits(n \div 10) \o <<Digit(n % 10)>>

Abs(x) == IF x < 0 THEN 0 - x ELSE x

\* The integer nearest to num/den (den > 0), ties to the even one: the
\* rounding of a float format such as '.2f' on the values of the model.
RoundDiv(num, den) ==
    LET fl == num \div den
        r  == num % den
    IN  IF 2 * r < den THEN fl
        ELSE IF 2 * r > den THEN fl + 1
        ELSE IF fl % 2 = 0 THEN fl ELSE fl + 1

\* f"{n:,}" of an integer n.
FormatCount(n) == (IF n < 0 THEN <<"-">> ELSE <<>>) \o GroupedDigits(Abs(n))

\* f"{x:,.0f}" of the integer x.
FormatUnits(x) == FormatCount(x)

\* f"${x:,.2f}" of x = num/den.
FormatMoney(num, den) ==
    LET cents == RoundDiv(100 * num, den)
        a     == Abs(cents)
    IN  <<"$">> \o (IF cents < 0 THEN <<"-">> ELSE <<>>)
        \o GroupedDigits(a \div 100)
        \o <<".", Digit((a \div 10) % 10), Digit(a % 10)>>

\* f"${x:,.2f}" of float('nan').
FormatNaN == <<"$", "n", "a", "n">>

\* f"{p:.1f}%" of p = num/den.
FormatPercent(num, den) ==
    LET tenths == RoundDiv(10 * num, den)
        a      == Abs(tenths)
    IN  (IF tenths < 0 THEN <<"-">> ELSE <<>>)
        \o PlainDigits(a \div 10) \o <<".", Digit(a % 10), "%">>

\* The literal "N/A".
NotAvailable == <<"N", "/", "A">>

\* ------------------------------------------------------------ the CSV file

\* The candidate column names of each role, in the order the code tries them.
DateCandidates == <<"Date", "Order Date">>

CategoryCandidates == <<"Category", "Product Category", "Item Category">>

AmountCandidates == <<"Amount", "Sales", "Total", "Revenue", "Price">>

QuantityCandidates == <<"Quantity", "Qty", "Units">>

\* No column: Python's None.
None == "None"

\* The sentinel 'All' of the category selectbox.
All == 0

\* A timestamp of the given day and time of day.
TS(day, tod) == day * TicksPerDay + tod

\* Timestamp.date() / Series.dt.date: the day, the time of day dropped.
DateOf(t) == t \div TicksPerDay

\* pd.to_datetime(d) of a datetime.date d: midnight of that day.
ToDatetime(d) == d * TicksPerDay

\* Series.dt.to_period('M').astype(str): the calendar month of a timestamp.
MonthOf(t) == (DateOf(t) - 1) \div DaysPerMonth + 1

\* The values a cell of the exhaustively enumerated files may hold.
\* (days 2 and 3 lie in different months of the modelled calendar)
DateValues == {TS(2, 0), TS(3, 0), TS(3, 1)}

CategoryValues == {1, 2}

AmountValues == {0, 1}

QuantityValues == {2}

ColumnDomain(c) ==
    IF c \in Range(DateCandidates) THEN DateValues
    ELSE IF c \in Range(CategoryCandidates) THEN CategoryValues
    ELSE IF c \in Range(AmountCandidates) THEN AmountValues
    ELSE IF c \in Range(QuantityCandidates) THEN QuantityValues
    ELSE {0}

\* The header rows of the enumerated files: every choice of which roles
\* have a column, and one header that uses later candidate names.
ColumnSets ==
    SUBSET {"Date", "Category", "Amount", "Quantity"}
    \cup {{"Order Date", "Product Category", "Sales", "Units"}}

RowsOver(cols) ==
    {r \in [cols -> DateValues \cup CategoryValues \cup AmountValues
                    \cup QuantityValues \cup {0}] :
        \A c \in cols : r[c] \in ColumnDomain(c)}

SeqsUpTo(S, n) == UNION {[1..k -> S] : k \in 0..n}

SmallFiles ==
    UNION {{[exists |-> TRUE, columns |-> cols, rows |-> rows] :
                rows \in SeqsUpTo(RowsOver(cols), MaxRows)} : cols \in ColumnSets}

\* The amounts of the wide files, one row per category i.
WideAmount(pattern, i) ==
    CASE pattern = "equal"      -> 1
      [] pattern = "increasing" -> i
      [] pattern = "decreasing" -> NumWideCats + 1 - i
      [] pattern = "cyclic"     -> i % 3
      [] pattern = "zero"       -> 0
      [] pattern = "refunds"    -> IF i = 1 THEN 7 ELSE 0 - (i % 2)

WidePatterns == {"equal", "increasing", "decreasing", "cyclic", "zero", "refunds"}

\* Files with more distinct categories than the top-10 cut keeps.
WideFiles ==
    {[exists |-> TRUE,
      columns |-> {"Date", "Category", "Amount", "Quantity"},
      rows |-> [i \in 1..NumWideCats |->
                  [c \in {"Date", "Category", "Amount", "Quantity"} |->
                     CASE c = "Date" -> TS(2 + (i % 2), 0)
                       [] c = "Category" -> i
                       [] c = "Amount" -> WideAmount(pattern, i)
                       [] c = "Quantity" -> 1]]] : pattern \in WidePatterns}

\* Files whose two rows lie two days apart, so that a date range within
\* [min_date, max_date] can hold no row; the second row of either category.
GapFiles ==
    {[exists |-> TRUE,
      columns |-> {"Date", "Category", "Amount", "Quantity"},
      rows |-> [i \in 1..2 |->
                  [c \in {"Date", "Category", "Amount", "Quantity"} |->
                     CASE c = "Date" -> TS(2 * i, 0)
                       [] c = "Category" -> IF i = 1 THEN 1 ELSE cat
                       [] c = "Amount" -> 1
                       [] c = "Quantity" -> 2]]] : cat \in CategoryValues}

MissingFile == [exists |-> FALSE, columns |-> {}, rows |-> <<>>]

Files == SmallFiles \cup WideFiles \cup GapFiles \cup {MissingFile}

\* The column names the resolution is tried on: every candidate name of every
\* role, and one name that is no candidate (it differs from one in case only).
ColumnNames ==
    Range(DateCandidates) \cup Range(CategoryCandidates)
    \cup Range(AmountCandidates) \cup Range(QuantityCandidates) \cup {"date"}

\* Files of one row under every header made of those names.
HeaderFiles ==
    {[exists |-> TRUE, columns |-> cols,
      rows |-> <<[c \in cols |-> SetMin(ColumnDomain(c))]>>] : cols \in SUBSET ColumnNames}

\* The two scripts.
Apps == {"ecommerce-dashboard", "ecommerce-dash-pdf"}

\* datetime.now() at the moment a report is generated.
Clock == {[minute |-> 1, year |-> 2025], [minute |-> 2, year |-> 2025]}

\* ------------------------------------------------------- pandas operations

\* Mutant of FirstPresent: the loop has no break, so the last candidate
\* name that is a column wins.
RECURSIVE FirstPresent_LastPresent(_, _)
FirstPresent_LastPresent(candidates, columns) ==
    IF candidates = <<>> THEN None
    ELSE IF candidates[Len(candidates)] \in columns THEN candidates[Len(candidates)]
    ELSE FirstPresent_LastPresent(SubSeq(candidates, 1, Len(candidates) - 1), columns)

\* The first candidate name that is a column, or None: the for/break loops.
RECURSIVE FirstPresent(_, _)
FirstPresent(candidates, columns) ==
    IF candidates = <<>> THEN None
    ELSE IF Head(candidates) \in columns THEN Head(candidates)
    ELSE FirstPresent(Tail(candidates), columns)

\* df[col] as a sequence of values.
Column(rows, col) == [i \in DOMAIN rows |-> rows[i][col]]

\* df[(df[date_col] >= lo) & (df[date_col] <= hi)].
RECURSIVE FilterByDate(_, _, _, _)
FilterByDate(rows, col, lo, hi) ==
    IF rows = <<>> THEN <<>>
    ELSE (IF Head(rows)[col] >= lo /\ Head(rows)[col] <= hi
          THEN <<Head(rows)>> ELSE <<>>)
         \o FilterByDate(Tail(rows), col, lo, hi)

\* Mutant of FilterByCategory: the comparison is inverted.
RECURSIVE FilterByCategory_Inverted(_, _, _)
FilterByCategory_Inverted(rows, col, selected) ==
    IF rows = <<>> THEN <<>>
    ELSE (IF Head(rows)[col] # selected THEN <<Head(rows)>> ELSE <<>>)
         \o FilterByCategory_Inverted(Tail(rows), col, selected)

\* df[df[category_col] == selected_category].
RECURSIVE FilterByCategory(_, _, _)
FilterByCategory(rows, col, selected) ==
    IF rows = <<>> THEN <<>>
    ELSE (IF Head(rows)[col] = selected THEN <<Head(rows)>> ELSE <<>>)
         \o FilterByCategory(Tail(rows), col, selected)

\* The sum of vals over the positions whose key is k.
RECURSIVE SumWhere(_, _, _)
SumWhere(keys, vals, k) ==
    IF keys = <<>> THEN 0
    ELSE (IF Head(keys) = k THEN Head(vals) ELSE 0)
         + SumWhere(Tail(keys), Tail(vals), k)

\* df.groupby(keys)[amount].sum(): one entry per distinct key, in key order.
GroupBySum(keys, vals) ==
    LET ks == SortedSeq(Range(keys))
    IN  [i \in DOMAIN ks |-> [key |-> ks[i], sum |-> SumWhere(keys, vals, ks[i])]]

\* Series.sort_values(ascending=False): non-increasing sums, equal sums in
\* the order of the grouping.
SortValuesDescending(groups) ==
    LET n == Len(groups)
        Rank(i) == 1 + Cardinality({j \in 1..n :
                         \/ groups[j].sum > groups[i].sum
                         \/ groups[j].sum = groups[i].sum /\ j < i})
    IN  [p \in 1..n |-> groups[CHOOSE i \in 1..n : Rank(i) = p]]

\* Series.sort_values(ascending=True).
SortValuesAscending(groups) ==
    LET n == Len(groups)
        Rank(i) == 1 + Cardinality({j \in 1..n :
                         \/ groups[j].sum < groups[i].sum
                         \/ groups[j].sum = groups[i].sum /\ j < i})
    IN  [p \in 1..n |-> groups[CHOOSE i \in 1..n : Rank(i) = p]]

\* df.groupby(df[date_col].dt.date)[amount_col].sum().reset_index().
DailySales(rows, dcol, acol) ==
    GroupBySum([i \in DOMAIN rows |-> DateOf(rows[i][dcol])], Column(rows, acol))

\* Mutant of TopCategories: the ranking is not cut to its first 10 entries.
TopCategories_NoCut(rows, ccol, acol) ==
    SortValuesDescending(GroupBySum(Column(rows, ccol), Column(rows, acol)))

\* df.groupby(category_col)[amount_col].sum().sort_values(ascending=False).head(10).
TopCategories(rows, ccol, acol) ==
    HeadN(SortValuesDescending(GroupBySum(Column(rows, ccol), Column(rows, acol))),
          TopN)

\* df.groupby(category_col)[amount_col].sum().sort_values(ascending=True).tail(10).
TopCategoriesAscending(rows, ccol, acol) ==
    TailN(SortValuesAscending(GroupBySum(Column(rows, ccol), Column(rows, acol))),
          TopN)

\* df['Month'] = df[date_col].dt.to_period('M').astype(str): the frame with
\* the column Month added (or overwritten).
WithMonth(frame, dcol) ==
    [columns |-> frame.columns \cup {"Month"},
     rows |-> [i \in DOMAIN frame.rows |->
                 [c \in frame.columns \cup {"Month"} |->
                    IF c = "Month" THEN MonthOf(frame.rows[i][dcol])
                    ELSE frame.rows[i][c]]]]

\* df.groupby('Month')[amount_col].sum().reset_index() of a frame with Month.
MonthlySales(rows, acol) ==
    GroupBySum(Column(rows, "Month"), Column(rows, acol))

\* ------------------------------------------------------ the PDF report

\* dict.get(key, default).
Get(dict, key, default) == IF key \in DOMAIN dict THEN dict[key] ELSE default

Spacer == [kind |-> "Spacer", text |-> "", data |-> <<>>]

PageBreak == [kind |-> "PageBreak", text |-> "", data |-> <<>>]

Paragraph(text) == [kind |-> "Paragraph", text |-> text, data |-> <<>>]

Table(name, data) == [kind |-> "Table", text |-> name, data |-> data]

Image(name, buf) == [kind |-> "Image", text |-> name, data |-> buf]

\* The PNG buffers of the four matplotlib charts: what each one draws.
create_sales_trend_chart(rows, dcol, acol) == DailySales(rows, dcol, acol)

create_top_categories_chart(rows, ccol, acol) == TopCategoriesAscending(rows, ccol, acol)

create_distribution_chart(rows, acol) == Column(rows, acol)

create_monthly_chart(frame, dcol, acol) == MonthlySales(WithMonth(frame, dcol).rows, acol)

\* Mutant of ChartsData: the distribution chart is drawn under the condition
\* of the trend chart (date and amount), not of the amount alone.
ChartsData_DistributionNeedsDate(frame, dcol, acol, ccol) ==
    (IF dcol # None /\ acol # None
     THEN "sales_trend" :> create_sales_trend_chart(frame.rows, dcol, acol)
     ELSE <<>>)
    @@ (IF ccol # None /\ acol # None
        THEN "top_categories" :> create_top_categories_chart(frame.rows, ccol, acol)
        ELSE <<>>)
    @@ (IF dcol # None /\ acol # None
        THEN "sales_distribution" :> create_distribution_chart(frame.rows, acol)
        ELSE <<>>)
    @@ (IF dcol # None /\ acol # None
        THEN "monthly_sales" :> create_monthly_chart(frame, dcol, acol)
        ELSE <<>>)

\* The dict charts_data the export builds before it assembles the report.
ChartsData(frame, dcol, acol, ccol) ==
    (IF dcol # None /\ acol # None
     THEN "sales_trend" :> create_sales_trend_chart(frame.rows, dcol, acol)
     ELSE <<>>)
    @@ (IF ccol # None /\ acol # None
        THEN "top_categories" :> create_top_categories_chart(frame.rows, ccol, acol)
        ELSE <<>>)
    @@ (IF acol # None
        THEN "sales_distribution" :> create_distribution_chart(frame.rows, acol)
        ELSE <<>>)
    @@ (IF dcol # None /\ acol # None
        THEN "monthly_sales" :> create_monthly_chart(frame, dcol, acol)
        ELSE <<>>)

\* 'name' in charts_data and charts_data['name']: a BytesIO is always true.
HasChart(charts_data, name) == name \in DOMAIN charts_data

\* Mutant of CategoryData: the percentages are taken of the total of all
\* categories, not of the subtotal of the rows returned.
CategoryData_OfFullTotal(rows, ccol, acol) ==
    LET top_categories == TopCategories(rows, ccol, acol)
        total_revenue  == SeqSum(Column(rows, acol))
    IN  <<<<"Rank", "Category", "Revenue", "% of Total">>>>
        \o [idx \in DOMAIN top_categories |->
              <<PlainDigits(idx),
                top_categories[idx].key,
                FormatMoney(top_categories[idx].sum, 1),
                IF total_revenue > 0
                THEN FormatPercent(top_categories[idx].sum * 100, total_revenue)
                ELSE FormatPercent(0, 1)>>]

\* Mutant of CategoryData: with no category to list, the table is left
\* without its header row.
CategoryData_NoHeaderWhenEmpty(rows, ccol, acol) ==
    LET top_categories == TopCategories(rows, ccol, acol)
        total_revenue  == SeqSum([i \in DOMAIN top_categories |-> top_categories[i].sum])
    IN  (IF top_categories = <<>> THEN <<>>
         ELSE <<<<"Rank", "Category", "Revenue", "% of Total">>>>)
        \o [idx \in DOMAIN top_categories |->
              <<PlainDigits(idx),
                top_categories[idx].key,
                FormatMoney(top_categories[idx].sum, 1),
                IF total_revenue > 0
                THEN FormatPercent(top_categories[idx].sum * 100, total_revenue)
                ELSE FormatPercent(0, 1)>>]

\* The rows of the detail table: the header and one row per top category.
CategoryData(rows, ccol, acol) ==
    LET top_categories == TopCategories(rows, ccol, acol)
        total_revenue  == SeqSum([i \in DOMAIN top_categories |-> top_categories[i].sum])
    IN  <<<<"Rank", "Category", "Revenue", "% of Total">>>>
        \o [idx \in DOMAIN top_categories |->
              <<PlainDigits(idx),
                top_categories[idx].key,
                FormatMoney(top_categories[idx].sum, 1),
                IF total_revenue > 0
                THEN FormatPercent(top_categories[idx].sum * 100, total_revenue)
                ELSE FormatPercent(0, 1)>>]

\* The chart pages of the report.
ChartSections(charts_data) ==
    <<Paragraph("Sales Trend Analysis"), Spacer>>
    \o (IF HasChart(charts_data, "sales_trend")
        THEN <<Image("sales_trend", charts_data["sales_trend"]), Spacer>> ELSE <<>>)
    \o <<Paragraph("Top Categories Performance"), Spacer>>
    \o (IF HasChart(charts_data, "top_categories")
        THEN <<Image("top_categories", charts_data["top_categories"])>> ELSE <<>>)
    \o <<PageBreak>>
    \o <<Paragraph("Sales Distribution"), Spacer>>
    \o (IF HasChart(charts_data, "sales_distribution")
        THEN <<Image("sales_distribution", charts_data["sales_distribution"]), Spacer>>
        ELSE <<>>)
    \o <<Paragraph("Monthly Comparison"), Spacer>>
    \o (IF HasChart(charts_data, "monthly_sales")
        THEN <<Image("monthly_sales", charts_data["monthly_sales"])>> ELSE <<>>)
    \o <<PageBreak>>

\* Mutant of create_branded_pdf_report: the data insights page is appended
\* before the chart pages.
create_branded_pdf_report_TableBeforeCharts(frame, metrics, charts_data, dcol, acol, ccol, qcol, info, now) ==
    <<Spacer,
      Table("brand_box", <<<<"E-COMMERCE ANALYTICS">>>>),
      Spacer,
      Paragraph("Sales Performance Proposal"),
      Paragraph("Comprehensive Analytics Report"),
      Spacer,
      Table("report_info",
            <<<<"Report Generated:", now.minute>>,
              <<"Date Range:", Get(info, "date_range", <<"All Dates">>)>>,
              <<"Category Filter:", Get(info, "category", "All Categories")>>,
              <<"Total Records:", Get(info, "total_records", NotAvailable)>>>>),
      PageBreak>>
    \o <<Paragraph("Key Assumptions & Methodology"), Spacer,
         Paragraph("assumptions_text"), PageBreak>>
    \o <<Paragraph("Executive Summary - Key Performance Indicators"), Spacer,
         Table("kpi",
               <<<<"TOTAL SALES", "AVG ORDER VALUE">>,
                 <<Get(metrics, "total_sales", NotAvailable),
                   Get(metrics, "avg_order_value", NotAvailable)>>,
                 <<"TOTAL ORDERS", "TOTAL UNITS SOLD">>,
                 <<Get(metrics, "total_orders", NotAvailable),
                   Get(metrics, "total_units", NotAvailable)>>>>),
         PageBreak>>
    \o <<Paragraph("Top 10 Categories - Detailed Breakdown"), Spacer>>
    \o (IF ccol # None /\ acol # None
        THEN <<Table("category_table", CategoryData(frame.rows, ccol, acol))>>
        ELSE <<>>)
    \o ChartSections(charts_data)
    \o <<Spacer, [kind |-> "Paragraph", text |-> "footer_text", data |-> <<now.year>>]>>

\* The list `elements` that create_branded_pdf_report hands to doc.build.
create_branded_pdf_report(frame, metrics, charts_data, dcol, acol, ccol, qcol, info, now) ==
    \* cover page
    <<Spacer,
      Table("brand_box", <<<<"E-COMMERCE ANALYTICS">>>>),
      Spacer,
      Paragraph("Sales Performance Proposal"),
      Paragraph("Comprehensive Analytics Report"),
      Spacer,
      Table("report_info",
            <<<<"Report Generated:", now.minute>>,
              <<"Date Range:", Get(info, "date_range", <<"All Dates">>)>>,
              <<"Category Filter:", Get(info, "category", "All Categories")>>,
              <<"Total Records:", Get(info, "total_records", NotAvailable)>>>>),
      PageBreak>>
    \* assumptions page
    \o <<Paragraph("Key Assumptions & Methodology"), Spacer,
         Paragraph("assumptions_text"), PageBreak>>
    \* key metrics page
    \o <<Paragraph("Executive Summary - Key Performance Indicators"), Spacer,
         Table("kpi",
               <<<<"TOTAL SALES", "AVG ORDER VALUE">>,
                 <<Get(metrics, "total_sales", NotAvailable),
                   Get(metrics, "avg_order_value", NotAvailable)>>,
                 <<"TOTAL ORDERS", "TOTAL UNITS SOLD">>,
                 <<Get(metrics, "total_orders", NotAvailable),
                   Get(metrics, "total_units", NotAvailable)>>>>),
         PageBreak>>
    \* chart pages
    \o ChartSections(charts_data)
    \* data insights page
    \o <<Paragraph("Top 10 Categories - Detailed Breakdown"), Spacer>>
    \o (IF ccol # None /\ acol # None
        THEN <<Table("category_table", CategoryData(frame.rows, ccol, acol))>>
        ELSE <<>>)
    \* footer
    \o <<Spacer, [kind |-> "Paragraph", text |-> "footer_text", data |-> <<now.year>>]>>

\* ------------------------------------------------------------- the state

VARIABLES
    app,                \* the script that runs
    file,               \* Ecommerce_Sales_Data_2024_2025.csv on disk
    pc,                 \* how far the pass has come
    df,                 \* the DataFrame the script holds
    date_col, category_col, amount_col, quantity_col,
    date_range,         \* what st.sidebar.date_input returned
    selected_category,  \* what st.sidebar.selectbox returned
    filter_info,        \* dict for the report cover (PDF script)
    metrics_data,       \* dict for the KPI page (PDF script)
    tiles,              \* the st.metric tiles on the page
    charts,             \* the data of the plotly charts on the page
    preview,            \* st.dataframe(df.head(100))
    csv_download,       \* the data of the CSV download button
    pdf_download,       \* the data of the PDF download button
    messages            \* st.error / st.info / st.success shown

vars == <<app, file, pc, df, date_col, category_col, amount_col, quantity_col,
          date_range, selected_category, filter_info, metrics_data, tiles,
          charts, preview, csv_download, pdf_download, messages>>

\* Nothing on the page yet.
NoFrame == [columns |-> {}, rows |-> <<>>]

NoDownload == [offered |-> FALSE, columns |-> {}, rows |-> <<>>]

NoPdf == [offered |-> FALSE, elements |-> <<>>]

Fresh ==
    /\ pc = "start"
    /\ df = NoFrame
    /\ date_col = None /\ category_col = None
    /\ amount_col = None /\ quantity_col = None
    /\ date_range = <<>>
    /\ selected_category = All
    /\ filter_info = <<>>
    /\ metrics_data = <<>>
    /\ tiles = <<>>
    /\ charts = <<>>
    /\ preview = <<>>
    /\ csv_download = NoDownload
    /\ pdf_download = NoPdf
    /\ messages = <<>>

Init ==
    /\ app \in Apps
    /\ file \in Files
    /\ Fresh

IsPdfApp == app = "ecommerce-dash-pdf"

\* pd.read_csv raises FileNotFoundError when the file is missing, and
\* EmptyDataError when the file has no column to parse; the handlers at the
\* bottom of the script report them.
load_data ==
    /\ pc = "start"
    /\ IF ~file.exists
       THEN /\ pc' = "file_not_found"
            /\ messages' = <<"Dataset not found!", "To use this dashboard:">>
            /\ UNCHANGED df
       ELSE IF file.columns = {}
       THEN /\ pc' = "error"
            /\ messages' = <<"An error occurred", "Please check your data file and column names.">>
            /\ UNCHANGED df
       ELSE /\ df' = [columns |-> file.columns, rows |-> file.rows]
            /\ pc' = "loaded"
            /\ UNCHANGED messages
    /\ UNCHANGED <<app, file, date_col, category_col, amount_col, quantity_col,
                   date_range, selected_category, filter_info, metrics_data,
                   tiles, charts, preview, csv_download, pdf_download>>

\* date_col of the frame's columns.
ResolveDateCol(columns) ==
    IF "Date" \in columns THEN "Date"
    ELSE IF "Order Date" \in columns THEN "Order Date" ELSE None

\* What the date_input widget can return: a range (start, end) within
\* [min_date, max_date], or the single date picked so far.
DateInputs(min_day, max_day) ==
    {r \in (min_day..max_day) \X (min_day..max_day) : r[1] <= r[2]}
    \cup {<<s>> : s \in min_day..max_day}

\* f"{date_range[0]} to {date_range[1]}".
DateRangeText(range) == <<range[1], "to", range[2]>>

\* Mutant of DateFilter: a single endpoint is taken as the range of that one
\* day.
DateFilter_SingleDayRange ==
    /\ pc = "loaded"
    /\ date_col' = ResolveDateCol(df.columns)
    /\ IF date_col' = None
       THEN /\ pc' = "dated"
            /\ UNCHANGED <<df, date_range, filter_info, messages>>
       ELSE IF df.rows = <<>>
       THEN /\ pc' = "error"
            /\ messages' = <<"An error occurred", "Please check your data file and column names.">>
            /\ UNCHANGED <<df, date_range, filter_info>>
       ELSE LET min_date == SetMin(Range(Column(df.rows, date_col')))
                max_date == SetMax(Range(Column(df.rows, date_col')))
            IN  \E input \in DateInputs(DateOf(min_date), DateOf(max_date)) :
                  LET range == IF Len(input) = 2 THEN input
                               ELSE <<input[1], input[1]>>
                  IN  /\ date_range' = input
                      /\ df' = [df EXCEPT !.rows =
                                  FilterByDate(df.rows, date_col',
                                               ToDatetime(range[1]),
                                               ToDatetime(range[2]))]
                      /\ filter_info' =
                           IF IsPdfApp
                           THEN "date_range" :> DateRangeText(range)
                           ELSE filter_info
                      /\ pc' = "dated"
                      /\ UNCHANGED messages
    /\ UNCHANGED <<app, file, category_col, amount_col, quantity_col,
                   selected_category, metrics_data, tiles, charts, preview,
                   csv_download, pdf_download>>

\* The date filter of the sidebar. min()/max() of an empty date column is
\* NaT, which date_input rejects: the generic handler reports it.
DateFilter ==
    /\ pc = "loaded"
    /\ date_col' = ResolveDateCol(df.columns)
    /\ IF date_col' = None
       THEN /\ pc' = "dated"
            /\ UNCHANGED <<df, date_range, filter_info, messages>>
       ELSE IF df.rows = <<>>
       THEN /\ pc' = "error"
            /\ messages' = <<"An error occurred", "Please check your data file and column names.">>
            /\ UNCHANGED <<df, date_range, filter_info>>
       ELSE LET min_date == SetMin(Range(Column(df.rows, date_col')))
                max_date == SetMax(Range(Column(df.rows, date_col')))
            IN  \E input \in DateInputs(DateOf(min_date), DateOf(max_date)) :
                  /\ date_range' = input
                  /\ IF Len(input) = 2
                     THEN /\ df' = [df EXCEPT !.rows =
                                      FilterByDate(df.rows, date_col',
                                                   ToDatetime(input[1]),
                                                   ToDatetime(input[2]))]
                          /\ filter_info' =
                               IF IsPdfApp
                               THEN "date_range" :> DateRangeText(input)
                               ELSE filter_info
                     ELSE /\ UNCHANGED df
                          /\ filter_info' =
                               IF IsPdfApp
                               THEN "date_range" :> <<"All Dates">>
                               ELSE filter_info
                  /\ pc' = "dated"
                  /\ UNCHANGED messages
    /\ UNCHANGED <<app, file, category_col, amount_col, quantity_col,
                   selected_category, metrics_data, tiles, charts, preview,
                   csv_download, pdf_download>>

\* Mutant of CategoryOptions: the options are taken of the file as loaded,
\* before the date filter.
CategoryOptions_OfLoadedFile(rows, col) == <<All>> \o SortedSeq(Range(Column(file.rows, col)))

\* ['All'] + sorted(df[category_col].unique().tolist()).
CategoryOptions(rows, col) == <<All>> \o SortedSeq(Range(Column(rows, col)))

\* The category filter of the sidebar, and the record count for the cover.
CategoryFilter ==
    /\ pc = "dated"
    /\ category_col' = FirstPresent(CategoryCandidates, df.columns)
    /\ IF category_col' = None
       THEN /\ UNCHANGED <<df, selected_category>>
            /\ filter_info' =
                 IF IsPdfApp
                 THEN ("total_records" :> FormatCount(Len(df.rows))) @@ filter_info
                 ELSE filter_info
       ELSE \E selected \in Range(CategoryOptions(df.rows, category_col')) :
              /\ selected_category' = selected
              /\ df' = IF selected # All
                       THEN [df EXCEPT !.rows =
                               FilterByCategory(df.rows, category_col', selected)]
                       ELSE df
              /\ filter_info' =
                   IF IsPdfApp
                   THEN ("total_records" :> FormatCount(Len(df'.rows)))
                        @@ ("category" :> selected) @@ filter_info
                   ELSE filter_info
    /\ pc' = "filtered"
    /\ UNCHANGED <<app, file, date_col, amount_col, quantity_col, date_range,
                   metrics_data, tiles, charts, preview, csv_download,
                   pdf_download, messages>>

\* Mutant of FormatMean: the mean of no rows is coerced to zero.
FormatMean_ZeroWhenEmpty(amounts) ==
    IF amounts = <<>> THEN FormatMoney(0, 1) ELSE FormatMoney(SeqSum(amounts), Len(amounts))

\* f"${df[amount_col].mean():,.2f}": the mean of no rows is NaN, not an error.
FormatMean(amounts) ==
    IF amounts = <<>> THEN FormatNaN ELSE FormatMoney(SeqSum(amounts), Len(amounts))

\* Mutant of MetricTiles: the PDF script shows on its tiles what it records
\* in metrics_data, 'N/A' units included.
MetricTiles_OfMetricsData(rows, acol, qcol) ==
    (IF acol # None
     THEN ("Total Sales" :> FormatMoney(SeqSum(Column(rows, acol)), 1))
          @@ ("Avg Order Value" :> FormatMean(Column(rows, acol)))
     ELSE <<>>)
    @@ ("Total Orders" :> FormatCount(Len(rows)))
    @@ ("Total Units Sold" :> IF qcol # None
                              THEN FormatUnits(SeqSum(Column(rows, qcol)))
                              ELSE NotAvailable)

\* The st.metric tiles col1..col4 of the PDF script.
MetricTiles(rows, acol, qcol) ==
    (IF acol # None
     THEN ("Total Sales" :> FormatMoney(SeqSum(Column(rows, acol)), 1))
          @@ ("Avg Order Value" :> FormatMean(Column(rows, acol)))
     ELSE <<>>)
    @@ ("Total Orders" :> FormatCount(Len(rows)))
    @@ (IF qcol # None
        THEN "Total Units Sold" :> FormatUnits(SeqSum(Column(rows, qcol)))
        ELSE <<>>)

\* Mutant of MetricsData: the order count is taken of the loaded file, before
\* the filters.
MetricsData_Unfiltered(rows, acol, qcol) ==
    (IF acol # None
     THEN ("total_sales" :> FormatMoney(SeqSum(Column(rows, acol)), 1))
          @@ ("avg_order_value" :> (IF rows = <<>> THEN FormatNaN
                                    ELSE FormatMoney(SeqSum(Column(rows, acol)), Len(rows))))
     ELSE <<>>)
    @@ ("total_orders" :> FormatCount(Len(file.rows)))
    @@ ("total_units" :> IF qcol # None
                         THEN FormatUnits(SeqSum(Column(rows, qcol)))
                         ELSE NotAvailable)

\* Mutant of MetricsData: the sales total is filled in (as $0.00) even when
\* no amount column was found.
MetricsData_AlwaysSales(rows, acol, qcol) ==
    ("total_sales" :> IF acol # None
                      THEN FormatMoney(SeqSum(Column(rows, acol)), 1)
                      ELSE FormatMoney(0, 1))
    @@ (IF acol # None
        THEN "avg_order_value" :> (IF rows = <<>> THEN FormatNaN
                                   ELSE FormatMoney(SeqSum(Column(rows, acol)), Len(rows)))
        ELSE <<>>)
    @@ ("total_orders" :> FormatCount(Len(rows)))
    @@ ("total_units" :> IF qcol # None
                         THEN FormatUnits(SeqSum(Column(rows, qcol)))
                         ELSE NotAvailable)

\* The dict metrics_data of the PDF script.
MetricsData(rows, acol, qcol) ==
    (IF acol # None
     THEN ("total_sales" :> FormatMoney(SeqSum(Column(rows, acol)), 1))
          @@ ("avg_order_value" :> FormatMean(Column(rows, acol)))
     ELSE <<>>)
    @@ ("total_orders" :> FormatCount(Len(rows)))
    @@ ("total_units" :> IF qcol # None
                         THEN FormatUnits(SeqSum(Column(rows, qcol)))
                         ELSE NotAvailable)

\* The st.metric tiles col1..col4 of the plain dashboard.
DashboardMetricTiles(rows, acol, qcol) ==
    (IF acol # None
     THEN ("Total Sales" :> FormatMoney(SeqSum(Column(rows, acol)), 1))
          @@ ("Avg Order Value" :> FormatMean(Column(rows, acol)))
     ELSE <<>>)
    @@ ("Total Orders" :> FormatCount(Len(rows)))
    @@ (IF qcol # None
        THEN "Total Units Sold" :> FormatUnits(SeqSum(Column(rows, qcol)))
        ELSE <<>>)

\* The plain dashboard from load_data to its metric tiles, as a function of
\* the loaded file and of what the two sidebar widgets returned: the roles
\* it resolves, the rows it keeps and the tiles it shows.
DashboardPass(loaded, range, selected) ==
    LET dcol  == IF "Date" \in loaded.columns THEN "Date"
                 ELSE IF "Order Date" \in loaded.columns THEN "Order Date"
                 ELSE None
        dated == IF dcol # None /\ Len(range) = 2
                 THEN FilterByDate(loaded.rows, dcol,
                                   ToDatetime(range[1]), ToDatetime(range[2]))
                 ELSE loaded.rows
        ccol  == FirstPresent(<<"Category", "Product Category", "Item Category">>,
                              loaded.columns)
        rows  == IF ccol # None /\ selected # All
                 THEN FilterByCategory(dated, ccol, selected)
                 ELSE dated
        acol  == FirstPresent(<<"Amount", "Sales", "Total", "Revenue", "Price">>,
                              loaded.columns)
        qcol  == FirstPresent(<<"Quantity", "Qty", "Units">>, loaded.columns)
    IN  [date_col |-> dcol, category_col |-> ccol,
         amount_col |-> acol, quantity_col |-> qcol,
         df |-> [columns |-> loaded.columns, rows |-> rows],
         tiles |-> DashboardMetricTiles(rows, acol, qcol)]

\* The key performance indicators.
Metrics ==
    /\ pc = "filtered"
    /\ amount_col' = FirstPresent(AmountCandidates, df.columns)
    /\ quantity_col' = FirstPresent(QuantityCandidates, df.columns)
    /\ tiles' = IF IsPdfApp
                THEN MetricTiles(df.rows, amount_col', quantity_col')
                ELSE DashboardMetricTiles(df.rows, amount_col', quantity_col')
    /\ metrics_data' = IF IsPdfApp
                       THEN MetricsData(df.rows, amount_col', quantity_col')
                       ELSE metrics_data
    /\ pc' = "metrics"
    /\ UNCHANGED <<app, file, df, date_col, category_col, date_range,
                   selected_category, filter_info, charts, preview,
                   csv_download, pdf_download, messages>>

\* The frame after the monthly chart: df['Month'] is assigned on df itself.
FrameAfterCharts(frame, dcol, acol) ==
    IF dcol # None /\ acol # None THEN WithMonth(frame, dcol) ELSE frame

\* The data of the four plotly charts.
ChartPanels(frame, dcol, acol, ccol) ==
    (IF dcol # None /\ acol # None
     THEN "daily_sales" :> DailySales(frame.rows, dcol, acol) ELSE <<>>)
    @@ (IF ccol # None /\ acol # None
        THEN "top_categories" :> TopCategories(frame.rows, ccol, acol) ELSE <<>>)
    @@ (IF acol # None
        THEN "histogram" :> Column(frame.rows, acol) ELSE <<>>)
    @@ (IF dcol # None /\ acol # None
        THEN "monthly_sales" :> MonthlySales(WithMonth(frame, dcol).rows, acol)
        ELSE <<>>)

\* The main dashboard area: trend, top categories, distribution, monthly.
Charts ==
    /\ pc = "metrics"
    /\ charts' = ChartPanels(df, date_col, amount_col, category_col)
    /\ df' = FrameAfterCharts(df, date_col, amount_col)
    /\ pc' = "charts"
    /\ UNCHANGED <<app, file, date_col, category_col, amount_col, quantity_col,
                   date_range, selected_category, filter_info, metrics_data,
                   tiles, preview, csv_download, pdf_download, messages>>

\* df.to_csv(index=False): the header and the rows of the frame.
ToCsv(frame) == [offered |-> TRUE, columns |-> frame.columns, rows |-> frame.rows]

\* The data table and the CSV download button.
Downloads ==
    /\ pc = "charts"
    /\ preview' = HeadN(df.rows, PreviewRows)
    /\ csv_download' = ToCsv(df)
    /\ pc' = IF IsPdfApp THEN "csv" ELSE "done"
    /\ UNCHANGED <<app, file, df, date_col, category_col, amount_col,
                   quantity_col, date_range, selected_category, filter_info,
                   metrics_data, tiles, charts, pdf_download, messages>>

\* The places of the export's try block where rendering can raise: each
\* chart that is drawn, and the assembly and build of the report.
PdfFailures(dcol, acol, ccol) ==
    {"none", "report"}
    \cup (IF dcol # None /\ acol # None THEN {"sales_trend", "monthly_sales"} ELSE {})
    \cup (IF ccol # None /\ acol # None THEN {"top_categories"} ELSE {})
    \cup (IF acol # None THEN {"sales_distribution"} ELSE {})

\* Mutant of PdfExport: the try block has no handler of its own, so a
\* failure reaches the generic handler at the bottom of the script.
PdfExport_NoLocalHandler ==
    /\ pc = "csv"
    /\ IsPdfApp
    /\ \E now \in Clock, failure \in PdfFailures(date_col, amount_col, category_col) :
         IF failure = "none"
         THEN /\ pdf_download' =
                   [offered |-> TRUE,
                    elements |-> create_branded_pdf_report(
                        df, metrics_data,
                        ChartsData(df, date_col, amount_col, category_col),
                        date_col, amount_col, category_col, quantity_col,
                        filter_info, now)]
              /\ messages' = Append(messages, "PDF generated successfully!")
              /\ pc' = "done"
         ELSE /\ pdf_download' = NoPdf
              /\ messages' = messages \o <<"An error occurred",
                                           "Please check your data file and column names.">>
              /\ pc' = "error"
    /\ UNCHANGED <<app, file, df, date_col, category_col, amount_col,
                   quantity_col, date_range, selected_category, filter_info,
                   metrics_data, tiles, charts, preview, csv_download>>

\* The PDF column: the try block and its except Exception handler.
PdfExport ==
    /\ pc = "csv"
    /\ IsPdfApp
    /\ \E now \in Clock, failure \in PdfFailures(date_col, amount_col, category_col) :
         IF failure = "none"
         THEN /\ pdf_download' =
                   [offered |-> TRUE,
                    elements |-> create_branded_pdf_report(
                        df, metrics_data,
                        ChartsData(df, date_col, amount_col, category_col),
                        date_col, amount_col, category_col, quantity_col,
                        filter_info, now)]
              /\ messages' = Append(messages, "PDF generated successfully!")
         ELSE /\ pdf_download' = NoPdf
              /\ messages' = messages \o <<"Error generating PDF",
                                           "pip install reportlab matplotlib">>
    /\ pc' = "done"
    /\ UNCHANGED <<app, file, df, date_col, category_col, amount_col,
                   quantity_col, date_range, selected_category, filter_info,
                   metrics_data, tiles, charts, preview, csv_download>>

\* A widget change or a reload runs the script again from the top; the
\* cached load_data hands out a fresh copy of the file's frame.
Rerun ==
    /\ pc \in {"done", "error", "file_not_found"}
    /\ pc' = "start"
    /\ df' = NoFrame
    /\ date_col' = None /\ category_col' = None
    /\ amount_col' = None /\ quantity_col' = None
    /\ date_range' = <<>>
    /\ selected_category' = All
    /\ filter_info' = <<>>
    /\ metrics_data' = <<>>
    /\ tiles' = <<>>
    /\ charts' = <<>>
    /\ preview' = <<>>
    /\ csv_download' = NoDownload
    /\ pdf_download' = NoPdf
    /\ messages' = <<>>
    /\ UNCHANGED <<app, file>>

Next ==
    \/ load_data
    \/ DateFilter
    \/ CategoryFilter
    \/ Metrics
    \/ Charts
    \/ Downloads
    \/ PdfExport
    \/ Rerun

Spec == Init /\ [][Next]_vars

\* The scripts run on the files of every header: the specification the
\* resolution of the column roles is checked under.
InitResolver ==
    /\ app \in Apps
    /\ file \in HeaderFiles
    /\ Fresh

SpecResolver == InitResolver /\ [][Next]_vars

\* ------------------------------------------------------ reading the page

\* The pass has shown its metrics (and, in the PDF script, filled metrics_data).
PastMetrics == pc \in {"metrics", "charts", "csv", "done"}

\* The pass has drawn its charts.
PastCharts == pc \in {"charts", "csv", "done"}

DigitChars == {"0", "1", "2", "3", "4", "5", "6", "7", "8", "9"}

DigitValue(ch) == CHOOSE d \in 0..9 : Digit(d) = ch

\* The number a formatted string shows: its digits read in order, the
\* separators skipped ("1,234" is 1234, "$12.50" is 1250 cents, "33.3%" is
\* 333 tenths of a percent), negative after a minus sign.
RECURSIVE ReadDigits(_, _)
ReadDigits(chars, acc) ==
    IF chars = <<>> THEN acc
    ELSE IF Head(chars) \in DigitChars
    THEN ReadDigits(Tail(chars), 10 * acc + DigitValue(Head(chars)))
    ELSE ReadDigits(Tail(chars), acc)

ReadNumber(chars) ==
    IF "-" \in Range(chars) THEN 0 - ReadDigits(chars, 0) ELSE ReadDigits(chars, 0)

\* How often a row occurs in a sequence of rows.
Occurrences(rows, r) == Cardinality({i \in DOMAIN rows : rows[i] = r})

\* ---------------------------------------------------------------- claims

\* C1 (as claimed; the code breaks it): when the date role is bound and the
\* date range has two endpoints [start, end], the date-filtered dataset holds
\* only rows whose date lies within [start, end], and every loaded row whose
\* date equals start or end, whatever its time of day, is retained.
C1_DateFilterInclusive ==
    (pc = "dated" /\ date_col # None /\ Len(date_range) = 2) =>
        /\ \A i \in DOMAIN df.rows :
             /\ DateOf(df.rows[i][date_col]) >= date_range[1]
             /\ DateOf(df.rows[i][date_col]) <= date_range[2]
        /\ \A i \in DOMAIN file.rows :
             DateOf(file.rows[i][date_col]) \in {date_range[1], date_range[2]}
                => Occurrences(df.rows, file.rows[i])
                     = Occurrences(file.rows, file.rows[i])

\* C2: for a category selection other than 'All' every retained row has
\* exactly the selected category and the retained rows are exactly the rows
\* of the date-filtered dataset with that category; with 'All' the category
\* filter removes no row.
C2_CategoryFilterExact ==
    [][(pc = "dated" /\ pc' = "filtered" /\ category_col' # None) =>
          IF selected_category' # All
          THEN /\ \A i \in DOMAIN df'.rows :
                    df'.rows[i][category_col'] = selected_category'
               /\ \A i \in DOMAIN df.rows :
                    Occurrences(df'.rows, df.rows[i]) =
                      IF df.rows[i][category_col'] = selected_category'
                      THEN Occurrences(df.rows, df.rows[i]) ELSE 0
               /\ Range(df'.rows) \subseteq Range(df.rows)
          ELSE df' = df]_vars

\* C2 witness: a category was selected, it kept some rows and dropped others
\* that had passed the date filter.
C2_Witness ==
    /\ pc = "filtered" /\ category_col # None /\ selected_category # All
    /\ date_col # None /\ Len(date_range) = 2
    /\ Len(df.rows) >= 1
    /\ \E i \in DOMAIN file.rows :
         /\ file.rows[i][category_col] # selected_category
         /\ file.rows[i][date_col] >= ToDatetime(date_range[1])
         /\ file.rows[i][date_col] <= ToDatetime(date_range[2])

\* C3: for every combination of filters the total-orders metric, on the tile
\* and in metrics_data, is the row count of the filtered dataset, and so is
\* the 'Total Records' entry of filter_info.
C3_TotalOrdersIsRowCount ==
    PastMetrics =>
        /\ ReadNumber(tiles["Total Orders"]) = Len(df.rows)
        /\ IsPdfApp =>
             /\ ReadNumber(metrics_data["total_orders"]) = Len(df.rows)
             /\ metrics_data["total_orders"] = tiles["Total Orders"]
             /\ filter_info["total_records"] = metrics_data["total_orders"]

\* C3 witness: both filters dropped rows and the PDF script counted the rest.
C3_Witness ==
    /\ pc = "metrics" /\ IsPdfApp
    /\ date_col # None /\ Len(date_range) = 2
    /\ category_col # None /\ selected_category # All
    /\ Len(df.rows) = 1 /\ Len(file.rows) > 1
    /\ ReadNumber(metrics_data["total_orders"]) = 1

\* C4 (as claimed; refuted): metrics_data holds 'total_sales' and
\* 'avg_order_value' only when the amount role is bound, and 'total_units'
\* only when the quantity role is bound.
C4_NoEntryForUnboundRole ==
    (PastMetrics /\ IsPdfApp) =>
        /\ ("total_sales" \in DOMAIN metrics_data) => amount_col # None
        /\ ("avg_order_value" \in DOMAIN metrics_data) => amount_col # None
        /\ ("total_units" \in DOMAIN metrics_data) => quantity_col # None

\* C4 (amended): 'total_sales' and 'avg_order_value' are present exactly
\* when the amount role is bound; 'total_units' is always present, with the
\* marker "N/A" when the quantity role is unbound and the formatted sum of
\* the quantity column when it is bound.
C4_UnboundRoleIsMarked ==
    (PastMetrics /\ IsPdfApp) =>
        /\ ("total_sales" \in DOMAIN metrics_data) <=> amount_col # None
        /\ ("avg_order_value" \in DOMAIN metrics_data) <=> amount_col # None
        /\ "total_units" \in DOMAIN metrics_data
        /\ IF quantity_col = None
           THEN metrics_data["total_units"] = NotAvailable
           ELSE /\ metrics_data["total_units"] # NotAvailable
                /\ ReadNumber(metrics_data["total_units"])
                     = SeqSum(Column(df.rows, quantity_col))

\* C4 witness: the PDF script computed its metrics for a file with neither
\* an amount nor a quantity column.
C4_Witness ==
    /\ pc = "metrics" /\ IsPdfApp
    /\ amount_col = None /\ quantity_col = None
    /\ Len(df.rows) >= 1
    /\ DOMAIN metrics_data = {"total_orders", "total_units"}

\* C5 (as claimed; refuted): with the amount role bound and no row left
\* after the filters, the average raises an error that the top-level handler
\* reports, so the pass never gets past the metrics.
C5_EmptyMeanIsAnError ==
    (PastMetrics /\ amount_col # None) => df.rows # <<>>

\* C5 (amended): with the amount role bound and no row left after the
\* filters, the average raises nothing: the mean is NaN, the tile and
\* metrics_data['avg_order_value'] read "$nan", no error is reported and the
\* pass goes on.
C5_EmptyMeanIsNaN ==
    (PastMetrics /\ amount_col # None /\ df.rows = <<>>) =>
        /\ tiles["Avg Order Value"] = FormatNaN
        /\ IsPdfApp => metrics_data["avg_order_value"] = FormatNaN
        /\ "An error occurred" \notin Range(messages)

\* C5 witness: a pass over a file with an amount column ended with every
\* row filtered out and its downloads on the page.
C5_Witness ==
    /\ pc = "done" /\ amount_col # None /\ file.rows # <<>> /\ df.rows = <<>>
    /\ csv_download.offered
    /\ tiles["Avg Order Value"] = FormatNaN

\* The total of a category's amounts, added up row by row.
CategoryTotal(rows, ccol, acol, c) ==
    SeqSum([i \in DOMAIN rows |-> IF rows[i][ccol] = c THEN rows[i][acol] ELSE 0])

\* top is a top-N ranking of the categories of rows: at most TopN entries,
\* one per distinct category, each with that category's total, in
\* non-increasing order of total, and no category left out has a larger total.
IsTopRanking(top, rows, ccol, acol) ==
    LET cats == Range(Column(rows, ccol))
        keys == {top[i].key : i \in DOMAIN top}
    IN  /\ Len(top) <= TopN
        /\ Len(top) = Min2(TopN, Cardinality(cats))
        /\ \A i \in DOMAIN top :
             /\ top[i].key \in cats
             /\ top[i].sum = CategoryTotal(rows, ccol, acol, top[i].key)
        /\ \A i, j \in DOMAIN top :
             i < j => /\ top[i].key # top[j].key
                      /\ top[i].sum >= top[j].sum
        /\ \A c \in cats \ keys : \A i \in DOMAIN top :
             top[i].sum >= CategoryTotal(rows, ccol, acol, c)

\* The data rows (the header left out) of the report's detail table; none
\* when the report has no detail table.
DetailRows ==
    LET at == {i \in DOMAIN pdf_download.elements :
                 /\ pdf_download.elements[i].kind = "Table"
                 /\ pdf_download.elements[i].text = "category_table"}
    IN  IF at = {} THEN <<>>
        ELSE Tail(pdf_download.elements[CHOOSE i \in at : TRUE].data)

\* C6: with the category and amount roles bound, the top categories of the
\* chart and the data rows of the PDF detail table are at most 10 entries,
\* one per distinct category, each with the sum of that category's amounts,
\* ordered non-increasing by that sum.
C6_TopCategoriesRanked ==
    (PastCharts /\ category_col # None /\ amount_col # None) =>
        /\ IsTopRanking(charts["top_categories"], df.rows, category_col, amount_col)
        /\ pdf_download.offered =>
             /\ Len(DetailRows) = Len(charts["top_categories"])
             /\ \A i \in DOMAIN DetailRows :
                  /\ ReadNumber(DetailRows[i][1]) = i
                  /\ DetailRows[i][2] = charts["top_categories"][i].key
                  /\ ReadNumber(DetailRows[i][3])
                       = 100 * charts["top_categories"][i].sum

\* C6 witness: a report over more than 10 categories with different totals,
\* cut to 10 rows.
C6_Witness ==
    /\ pc = "done" /\ pdf_download.offered
    /\ category_col # None /\ amount_col # None
    /\ Cardinality(Range(Column(df.rows, category_col))) > TopN
    /\ Len(DetailRows) = TopN
    /\ charts["top_categories"][1].sum > charts["top_categories"][TopN].sum

\* The subtotal of the rows the detail table returns.
DetailSubtotal ==
    SeqSum([i \in DOMAIN DetailRows |->
              CategoryTotal(df.rows, category_col, amount_col, DetailRows[i][2])])

\* The percentage column, in tenths of a percent.
DetailPercents == [i \in DOMAIN DetailRows |-> ReadNumber(DetailRows[i][4])]

\* The percentages are the rows' shares of the subtotal to one decimal, and
\* add up to 100.0% within half a tenth per row.
PercentsOfSubtotal ==
    /\ 2 * Abs(SeqSum(DetailPercents) - 1000) <= Len(DetailRows)
    /\ \A i \in DOMAIN DetailRows :
         2 * Abs(DetailPercents[i] * DetailSubtotal
                 - 1000 * CategoryTotal(df.rows, category_col, amount_col,
                                        DetailRows[i][2]))
           <= Abs(DetailSubtotal)

\* C7 (as claimed; refuted): whenever the detail table has a data row, its
\* percentage column sums to 100.0% within the rounding of one decimal per
\* row, each percentage being the row's revenue over the subtotal of the
\* returned rows.
C7_PercentagesSumTo100 ==
    (pdf_download.offered /\ Len(DetailRows) >= 1) => PercentsOfSubtotal

\* C7 (amended): the same, provided the subtotal of the returned rows is
\* positive; when it is zero or negative every percentage is 0.0%.
C7_PercentagesOfPositiveSubtotal ==
    (pdf_download.offered /\ Len(DetailRows) >= 1) =>
        IF DetailSubtotal > 0 THEN PercentsOfSubtotal
        ELSE \A i \in DOMAIN DetailRows : DetailRows[i][4] = FormatPercent(0, 1)

\* C7 witness: a detail table of 10 rows cut from more categories, whose
\* subtotal is positive and differs from the full total, and whose rounded
\* percentages do not add up to exactly 100.0.
C7_Witness ==
    /\ pdf_download.offered /\ Len(DetailRows) = TopN
    /\ DetailSubtotal > 0
    /\ DetailSubtotal # SeqSum(Column(df.rows, amount_col))
    /\ SeqSum(DetailPercents) # 1000

\* The chart kinds in the order of the report, with heading and prerequisite.
ChartKinds == <<"sales_trend", "top_categories", "sales_distribution", "monthly_sales">>

ChartHeading(kind) ==
    CASE kind = "sales_trend"        -> "Sales Trend Analysis"
      [] kind = "top_categories"     -> "Top Categories Performance"
      [] kind = "sales_distribution" -> "Sales Distribution"
      [] kind = "monthly_sales"      -> "Monthly Comparison"

ChartPrerequisite(kind) ==
    CASE kind = "sales_trend"        -> date_col # None /\ amount_col # None
      [] kind = "top_categories"     -> category_col # None /\ amount_col # None
      [] kind = "sales_distribution" -> amount_col # None
      [] kind = "monthly_sales"      -> date_col # None /\ amount_col # None

\* Where the report has an element of the given kind and text.
ElementsAt(kind, text) ==
    {i \in DOMAIN pdf_download.elements :
        /\ pdf_download.elements[i].kind = kind
        /\ pdf_download.elements[i].text = text}

\* C8 (as claimed; refuted): a chart's page, heading included, is in the
\* report if and only if the chart's prerequisite role is bound.
C8_ChartPageIffPrerequisite ==
    pdf_download.offered =>
        \A k \in DOMAIN ChartKinds :
            (ElementsAt("Paragraph", ChartHeading(ChartKinds[k])) # {})
                <=> ChartPrerequisite(ChartKinds[k])

\* C8 (amended): the four chart headings are always in the report, once
\* each, in the order trend, top categories, distribution, monthly, two to
\* a page; a chart's image, placed under its heading, is in the report if
\* and only if the chart's prerequisite role is bound; apart from the chart
\* images (and the spacer after the trend and distribution images) only the
\* detail table, present iff category and amount are bound, changes the
\* number of elements.
C8_ChartImageIffPrerequisite ==
    pdf_download.offered =>
        LET els    == pdf_download.elements
            At(k)  == ElementsAt("Paragraph", ChartHeading(ChartKinds[k]))
            Pos(k) == CHOOSE i \in At(k) : TRUE
            Img(k) == ElementsAt("Image", ChartKinds[k])
            Breaks(lo, hi) == {i \in lo..hi : els[i].kind = "PageBreak"}
            N(b)   == IF b THEN 1 ELSE 0
        IN  /\ \A k \in DOMAIN ChartKinds :
                 /\ Cardinality(At(k)) = 1
                 /\ (Img(k) # {}) <=> ChartPrerequisite(ChartKinds[k])
                 /\ Img(k) \subseteq {Pos(k) + 2}
            /\ \A k \in 1..3 : Pos(k) < Pos(k + 1)
            /\ Breaks(Pos(1), Pos(2)) = {}
            /\ Cardinality(Breaks(Pos(2), Pos(3))) = 1
            /\ Breaks(Pos(3), Pos(4)) = {}
            /\ els[Pos(1) - 1].kind = "PageBreak"
            /\ Len(els) = 30
                 + 2 * N(ChartPrerequisite("sales_trend"))
                 + N(ChartPrerequisite("top_categories"))
                 + 2 * N(ChartPrerequisite("sales_distribution"))
                 + N(ChartPrerequisite("monthly_sales"))
                 + N(category_col # None /\ amount_col # None)

\* C8 witness: a report for a file with a date column and no amount column:
\* no chart is drawn and the four headings are there.
C8_Witness ==
    /\ pdf_download.offered
    /\ date_col # None /\ amount_col = None /\ category_col # None
    /\ Len(df.rows) >= 1
    /\ \A k \in DOMAIN ChartKinds :
         /\ ElementsAt("Image", ChartKinds[k]) = {}
         /\ ElementsAt("Paragraph", ChartHeading(ChartKinds[k])) # {}

\* C9 (as claimed; the code breaks it): the CSV export has exactly the
\* columns of the loaded dataset and exactly the rows that passed the
\* filters; nothing between the filters and the export changes the frame.
C9_CsvIsFilteredDataset ==
    csv_download.offered =>
        /\ csv_download.columns = file.columns
        /\ \A i \in DOMAIN csv_download.rows :
             DOMAIN csv_download.rows[i] = file.columns

\* C10: a failure while the PDF charts are drawn or the report is assembled
\* is caught by the export's own handler, which reports it with the
\* remediation hint; it does not reach the top-level handlers, no PDF
\* download is offered, and the metrics, charts, table preview and CSV
\* download of the pass stay as they were.
C10_PdfFailureStaysLocal ==
    [][(pc = "csv" /\ pc' # "csv") =>
          /\ pc' = "done"
          /\ "An error occurred" \notin Range(messages')
          /\ "Dataset not found!" \notin Range(messages')
          /\ UNCHANGED <<df, tiles, metrics_data, filter_info, charts,
                         preview, csv_download>>
          /\ \/ /\ pdf_download'.offered
                /\ messages' = Append(messages, "PDF generated successfully!")
             \/ /\ ~pdf_download'.offered
                /\ messages' = messages \o <<"Error generating PDF",
                                             "pip install reportlab matplotlib">>]_vars

\* C10 witness: the export failed and the pass ended with its metrics,
\* charts, preview and CSV download on the page and no PDF download.
C10_Witness ==
    /\ pc = "done" /\ IsPdfApp
    /\ "Error generating PDF" \in Range(messages)
    /\ ~pdf_download.offered
    /\ csv_download.offered
    /\ DOMAIN charts = {"daily_sales", "top_categories", "histogram", "monthly_sales"}
    /\ Len(preview) >= 1

\* The report create_branded_pdf_report assembles from the dataset, metrics,
\* chart images, roles and filter description of the pass when the clock
\* reads now.
AssembledAt(now) ==
    create_branded_pdf_report(df, metrics_data,
                              ChartsData(df, date_col, amount_col, category_col),
                              date_col, amount_col, category_col, quantity_col,
                              filter_info, now)

\* A report with what it takes from the clock blanked: the generation
\* timestamp of the cover and the year of the footer.
WithoutClock(elements) ==
    [i \in DOMAIN elements |->
        IF elements[i].kind = "Table" /\ elements[i].text = "report_info"
        THEN [elements[i] EXCEPT !.data[1][2] = 0]
        ELSE IF elements[i].kind = "Paragraph" /\ elements[i].text = "footer_text"
        THEN [elements[i] EXCEPT !.data = <<0>>]
        ELSE elements[i]]

\* The landmarks of the report's sections, in the order claimed: cover,
\* methodology, KPI summary, the four chart sections, detail table, footer.
SectionLandmarks ==
    <<<<"Paragraph", "Sales Performance Proposal">>,
      <<"Table", "report_info">>,
      <<"Paragraph", "Key Assumptions & Methodology">>,
      <<"Paragraph", "Executive Summary - Key Performance Indicators">>,
      <<"Table", "kpi">>,
      <<"Paragraph", "Sales Trend Analysis">>,
      <<"Paragraph", "Top Categories Performance">>,
      <<"Paragraph", "Sales Distribution">>,
      <<"Paragraph", "Monthly Comparison">>,
      <<"Paragraph", "Top 10 Categories - Detailed Breakdown">>,
      <<"Paragraph", "footer_text">>>>

\* Each landmark is in the report once, the landmarks follow one another in
\* the order of SectionLandmarks, the detail table (when there is one) lies
\* between its heading and the footer, and the footer ends the report.
InSectionOrder ==
    LET els    == pdf_download.elements
        At(k)  == ElementsAt(SectionLandmarks[k][1], SectionLandmarks[k][2])
        Pos(k) == CHOOSE i \in At(k) : TRUE
        last   == Len(SectionLandmarks)
    IN  /\ \A k \in DOMAIN SectionLandmarks : Cardinality(At(k)) = 1
        /\ \A k \in 1..(last - 1) : Pos(k) < Pos(k + 1)
        /\ Pos(last) = Len(els)
        /\ \A i \in ElementsAt("Table", "category_table") :
             Pos(last - 1) < i /\ i < Pos(last)

\* C11 (as claimed; refuted): the sections of the report are in the order
\* cover, methodology, KPI summary, chart sections, detail table, footer,
\* and an assembly from the same dataset, metrics, chart images, roles and
\* filter description yields the same sequence with the same content,
\* whenever it is made.
C11_SameInputsSameReport ==
    pdf_download.offered =>
        /\ InSectionOrder
        /\ \A now \in Clock : AssembledAt(now) = pdf_download.elements

\* C11 (amended): the sections are in that order, and an assembly from the
\* same inputs yields the same sequence with the same content apart from the
\* generation timestamp of the cover and the year of the footer, which are
\* the clock's at assembly; at the same clock reading the report is the same.
C11_SameInputsSameReportButClock ==
    pdf_download.offered =>
        /\ InSectionOrder
        /\ \A now \in Clock :
             WithoutClock(AssembledAt(now)) = WithoutClock(pdf_download.elements)
        /\ \E now \in Clock : AssembledAt(now) = pdf_download.elements

\* C11 witness: a report with every role bound, its charts and its detail
\* table, which an assembly from the same inputs one minute apart does not
\* reproduce.
C11_Witness ==
    /\ pc = "done" /\ pdf_download.offered
    /\ date_col # None /\ amount_col # None
    /\ category_col # None /\ quantity_col # None
    /\ Len(DetailRows) >= 1
    /\ \E now \in Clock :
         /\ AssembledAt(now) # pdf_download.elements
         /\ WithoutClock(AssembledAt(now)) = WithoutClock(pdf_download.elements)

\* C12: when the date role is bound and date_input returned a single
\* endpoint, no date filter is applied: the frame that reaches the category
\* filter has every loaded row, and (in the PDF script) the filter
\* description, and with it the cover of the report, records 'All Dates'.
C12_SingleEndpointNoDateFilter ==
    (date_col # None /\ Len(date_range) = 1) =>
        /\ pc = "dated" => df = [columns |-> file.columns, rows |-> file.rows]
        /\ IsPdfApp =>
             /\ "date_range" \in DOMAIN filter_info
             /\ filter_info["date_range"] = <<"All Dates">>
             /\ pdf_download.offered =>
                  \A i \in ElementsAt("Table", "report_info") :
                      pdf_download.elements[i].data[2]
                          = <<"Date Range:", <<"All Dates">>>>

\* C12 witness: the PDF script at the category filter after a single
\* endpoint was picked, holding rows of another day than the one picked.
C12_Witness ==
    /\ pc = "dated" /\ IsPdfApp
    /\ date_col # None /\ Len(date_range) = 1
    /\ Len(df.rows) >= 2
    /\ \E i \in DOMAIN df.rows : DateOf(df.rows[i][date_col]) # date_range[1]

\* col is the first name of candidates that is in columns, None when no
\* candidate is.
IsFirstPresent(col, candidates, columns) ==
    IF \E i \in DOMAIN candidates : candidates[i] \in columns
    THEN \E i \in DOMAIN candidates :
            /\ col = candidates[i]
            /\ candidates[i] \in columns
            /\ \A j \in 1..(i - 1) : candidates[j] \notin columns
    ELSE col = None

\* The pass has resolved the date role (the generic handler may follow).
PastDateFilter == pc \in {"dated", "filtered", "metrics", "charts", "csv", "done", "error"}

\* The pass has resolved the category role.
PastCategoryFilter == pc \in {"filtered", "metrics", "charts", "csv", "done"}

\* C13: whatever the column names of the dataset, each role (date,
\* category, amount, quantity) is resolved to the first name of its ordered
\* candidate list that is a column, and left unbound when none is: never a
\* name outside its list, never a name that is not a column; and the
\* resolution does not fail: the pass reaches the generic handler only for a
\* file without columns or without rows.
C13_RolesResolveToFirstCandidate ==
    /\ PastDateFilter =>
         IsFirstPresent(date_col, DateCandidates, file.columns)
    /\ PastCategoryFilter =>
         IsFirstPresent(category_col, CategoryCandidates, file.columns)
    /\ PastMetrics =>
         /\ IsFirstPresent(amount_col, AmountCandidates, file.columns)
         /\ IsFirstPresent(quantity_col, QuantityCandidates, file.columns)
    /\ \A col \in {date_col, category_col, amount_col, quantity_col} :
         col # None => col \in file.columns
    /\ date_col \in Range(DateCandidates) \cup {None}
    /\ category_col \in Range(CategoryCandidates) \cup {None}
    /\ amount_col \in Range(AmountCandidates) \cup {None}
    /\ quantity_col \in Range(QuantityCandidates) \cup {None}
    /\ pc = "error" => (file.columns = {} \/ file.rows = <<>>)

\* C13 witness: a pass over a header with several candidates of the date,
\* amount and quantity roles (the first amount candidate missing), no
\* category candidate, and a name that matches a candidate in all but case.
C13_Witness ==
    /\ pc = "done"
    /\ {"Date", "Order Date", "Total", "Price", "Qty", "Units", "date"}
         \subseteq file.columns
    /\ file.columns \cap {"Amount", "Sales", "Quantity"} = {}
    /\ file.columns \cap Range(CategoryCandidates) = {}
    /\ date_col = "Date" /\ amount_col = "Total" /\ quantity_col = "Qty"
    /\ category_col = None

\* C14: when the filtered dataset has no rows and the category and amount
\* roles are bound, the PDF export can run to its end ('PDF generated
\* successfully!'): nothing of the export is undefined on the empty frame;
\* and the report it offers has the detail table section, its heading
\* followed by the table, the table holding its header row and no data row.
C14_EmptyFrameExportsHeaderOnlyTable ==
    (IsPdfApp /\ df.rows = <<>> /\ category_col # None /\ amount_col # None) =>
        /\ pc = "csv" => ENABLED (PdfExport /\ pdf_download'.offered)
        /\ pdf_download.offered =>
             LET heading == ElementsAt("Paragraph", "Top 10 Categories - Detailed Breakdown")
                 table   == ElementsAt("Table", "category_table")
             IN  /\ "PDF generated successfully!" \in Range(messages)
                 /\ Cardinality(heading) = 1
                 /\ Cardinality(table) = 1
                 /\ \A h \in heading : table = {h + 2}
                 /\ \A t \in table :
                      pdf_download.elements[t].data
                          = <<<<"Rank", "Category", "Revenue", "% of Total">>>>

\* C14 witness: a report offered for a file with rows, all of which a date
\* range between two of its days filtered out, with every role bound.
C14_Witness ==
    /\ pc = "done" /\ pdf_download.offered
    /\ file.rows # <<>> /\ df.rows = <<>>
    /\ date_range = <<3, 3>>
    /\ date_col # None /\ category_col # None /\ amount_col # None
    /\ DetailRows = <<>>
    /\ ElementsAt("Table", "category_table") # {}

\* What the category filter step does, whatever the source of an empty
\* result: the selection is 'All' or a category of a row that passed the
\* date filter, a selection other than 'All' leaves at least one row, all
\* of that category, and the step never turns a frame with rows into one
\* without.
CategoryStepKeepsRows ==
    /\ category_col' # None =>
         /\ selected_category' \in {All} \cup {df.rows[i][category_col'] : i \in DOMAIN df.rows}
         /\ selected_category' # All =>
              /\ Len(df'.rows) >= 1
              /\ \A i \in DOMAIN df'.rows :
                   df'.rows[i][category_col'] = selected_category'
    /\ category_col' = None => selected_category' = All
    /\ df'.rows = <<>> => df.rows = <<>>

\* The date filter was applied in this pass: the date role is bound and the
\* widget returned both endpoints.
DateFilterApplied == date_col # None /\ Len(date_range) = 2

\* C15 (as claimed; refuted): the category options are 'All' plus the
\* categories left after the date filter, so a selection other than 'All'
\* leaves at least one row; a filtered dataset without rows comes about
\* only through the date filter.
C15_EmptyOnlyThroughDateFilter ==
    [][(pc = "dated" /\ pc' = "filtered") =>
          /\ CategoryStepKeepsRows
          /\ df'.rows = <<>> => (DateFilterApplied /\ file.rows # <<>>)]_vars

\* C15 (amended): the same, except that a filtered dataset without rows
\* comes about through the date filter or because the loaded dataset has no
\* rows; never through the category filter.
C15_EmptyThroughDateFilterOrEmptyFile ==
    [][(pc = "dated" /\ pc' = "filtered") =>
          /\ CategoryStepKeepsRows
          /\ df'.rows = <<>> => (DateFilterApplied \/ file.rows = <<>>)
          /\ (df'.rows = <<>> /\ file.rows # <<>>) => df.rows = <<>>]_vars

\* C15 witness: a file of two rows of different categories, both within the
\* date range picked, of which the category selected keeps one.
C15_Witness ==
    /\ pc = "filtered"
    /\ category_col # None /\ selected_category # All
    /\ date_col # None /\ Len(date_range) = 2
    /\ Len(file.rows) = 2 /\ Len(df.rows) = 1
    /\ file.rows[1][category_col] # file.rows[2][category_col]
    /\ \A i \in 1..2 : /\ ToDatetime(date_range[1]) <= file.rows[i][date_col]
                       /\ file.rows[i][date_col] <= ToDatetime(date_range[2])

\* C16: for the same loaded dataset, date range and category selection the
\* PDF dashboard resolves the roles, keeps the rows and shows the metric
\* tiles (total sales, average order value, total orders, total units) that
\* the plain dashboard does; the plain dashboard records no filter_info, no
\* metrics_data and offers no PDF, which the PDF dashboard does in addition.
C16_PdfDashboardRefinesPlain ==
    LET plain == DashboardPass(file, date_range, selected_category)
    IN  /\ PastCategoryFilter =>
             /\ date_col = plain.date_col
             /\ category_col = plain.category_col
        /\ pc \in {"filtered", "metrics"} => df = plain.df
        /\ PastMetrics =>
             /\ amount_col = plain.amount_col
             /\ quantity_col = plain.quantity_col
             /\ tiles = plain.tiles
        /\ ~IsPdfApp =>
             /\ filter_info = <<>> /\ metrics_data = <<>>
             /\ pdf_download = NoPdf /\ pc # "csv"
        /\ IsPdfApp =>
             /\ PastCategoryFilter => "total_records" \in DOMAIN filter_info
             /\ PastMetrics => "total_orders" \in DOMAIN metrics_data
             /\ pc = "done" =>
                  \/ pdf_download.offered
                  \/ "Error generating PDF" \in Range(messages)

\* C16 witness: the PDF dashboard at its metrics, with both filters at
\* work, rows filtered out and rows kept, and no quantity column, so that
\* metrics_data holds an entry ('N/A' units) that no tile shows.
C16_Witness ==
    /\ IsPdfApp /\ pc = "metrics"
    /\ date_col # None /\ category_col # None
    /\ amount_col # None /\ quantity_col = None
    /\ Len(date_range) = 2 /\ selected_category # All
    /\ Len(df.rows) >= 1 /\ Len(df.rows) < Len(file.rows)
    /\ DOMAIN tiles = {"Total Sales", "Avg Order Value", "Total Orders"}
    /\ metrics_data["total_units"] = NotAvailable

====
